---- MODULE Spec2Model ----
(***************************************************************************)
(* Model of the Aspen SIS client (src/src/Client.ts): the readiness flag,  *)
(* the page the client drives, and the login / extraction flows, one       *)
(* action per resumption of an awaited call.  A JavaScript string is a     *)
(* sequence of one-character strings; undefined is the sequence Undefined. *)
(***************************************************************************)
EXTENDS Integers, Sequences, FiniteSets, TLC

\* ------------------------------------------------------------------ bounds
MaxCalls == 3
MaxLogins == 2
MaxRows == 3
MaxCells == 5

\* -------------------------------------------------------- JavaScript values
Undefined == <<"undefined">>
NaN == [nan |-> TRUE, v |-> 0]
Num(n) == [nan |-> FALSE, v |-> n]
CheckboxText == <<"Select current record checkbox">>
Digits == {"0", "1", "2", "3", "4", "5", "6", "7", "8", "9"}
DigitVal(c) == CASE c = "0" -> 0 [] c = "1" -> 1 [] c = "2" -> 2 [] c = "3" -> 3
                 [] c = "4" -> 4 [] c = "5" -> 5 [] c = "6" -> 6 [] c = "7" -> 7
                 [] c = "8" -> 8 [] OTHER -> 9

\* String.prototype.toLowerCase, on the letters the sample data uses
LowerChar(c) == CASE c = "A" -> "a" [] c = "B" -> "b" [] c = "M" -> "m"
                  [] c = "S" -> "s" [] OTHER -> c
toLowerCase(s) == [i \in 1..Len(s) |-> LowerChar(s[i])]

\* String.prototype.indexOf(q): least 0-based offset of q in s, or -1
RECURSIVE indexOfFrom(_, _, _)
indexOfFrom(s, q, i) ==
  IF i + Len(q) > Len(s) THEN -1
  ELSE IF SubSeq(s, i + 1, i + Len(q)) = q THEN i
  ELSE indexOfFrom(s, q, i + 1)
indexOf(s, q) == indexOfFrom(s, q, 0)

\* mutant: the text is not cut at the separator
splitWhole(s, sep) == s

\* s.split('-')[0]: the text before the first '-', all of s when it has none
RECURSIVE splitFirst(_, _)
splitFirst(s, sep) ==
  IF s = <<>> THEN <<>>
  ELSE IF Head(s) = sep THEN <<>>
  ELSE <<Head(s)>> \o splitFirst(Tail(s), sep)

\* parseInt(s): optional sign, then the leading decimal digits; NaN when none
RECURSIVE leadingDigits(_)
leadingDigits(s) ==
  IF s = <<>> \/ Head(s) \notin Digits THEN <<>>
  ELSE <<Head(s)>> \o leadingDigits(Tail(s))
RECURSIVE digitsValue(_)
digitsValue(d) ==
  IF d = <<>> THEN 0 ELSE 10 * digitsValue(SubSeq(d, 1, Len(d) - 1)) + DigitVal(d[Len(d)])
parseInt(s) ==
  LET neg == s # <<>> /\ Head(s) = "-"
      body == IF s # <<>> /\ Head(s) \in {"-", "+"} THEN Tail(s) ELSE s
      d == leadingDigits(body)
  IN IF s = Undefined \/ d = <<>> THEN NaN
     ELSE Num(IF neg THEN 0 - digitsValue(d) ELSE digitsValue(d))

\* array[i] with a 0-based index: undefined past the end
At(a, i) == IF i + 1 <= Len(a) THEN a[i + 1] ELSE Undefined

\* ------------------------------------------------- getClasses: row parsing
\* A cell of the grid is [id, innerText]; the evaluate callback pushes the
\* cell's id when it has one, and its text unless it is the checkbox label.
CellEntries(col) ==
  (IF col.id # <<>> THEN <<col.id>> ELSE <<>>)
  \o (IF col.innerText # CheckboxText THEN <<col.innerText>> ELSE <<>>)
RECURSIVE RowEntries(_)
RowEntries(row) ==
  IF row = <<>> THEN <<>> ELSE CellEntries(Head(row)) \o RowEntries(Tail(row))
ScrapeRows(rows) == [i \in 1..Len(rows) |-> RowEntries(rows[i])]

\* mutant: the header row is not dropped
ShiftNothing(a) == a

\* classes.shift()
Shift(a) == IF a = <<>> THEN <<>> ELSE Tail(a)

\* course[2].split('-') throws a TypeError when course[2] is undefined
RowThrows(course) == At(course, 2) = Undefined
MapCourse(course) ==
  [courseName |-> At(course, 1),
   courseElementId |-> At(course, 0),
   courseCode |-> splitFirst(At(course, 2), "-"),
   sectionNumber |-> At(course, 2),
   semesters |-> At(course, 3),
   teacherName |-> At(course, 4),
   roomNumber |-> At(course, 5),
   attendance |-> [absences |-> parseInt(At(course, 6)),
                   tardy |-> At(course, 7),
                   dismissal |-> At(course, 8)]]

\* The .then(classes => ...) of getClasses: drop the first row, map the rest.
\* kind "ok" carries the records, kind "TypeError" is the rejection.
ParseClasses(rows) ==
  LET data == Shift(ScrapeRows(rows))
  IN IF \E i \in 1..Len(data) : RowThrows(data[i])
     THEN [kind |-> "TypeError", val |-> <<>>]
     ELSE [kind |-> "ok", val |-> [i \in 1..Len(data) |-> MapCourse(data[i])]]

\* ------------------------------------------- getClassDetails: course search
Methods == {"courseName", "teacherName", "courseCode", "sectionNumber"}
NoCourse == [courseName |-> Undefined]

\* mutant: the + 1 is left out, so offset 0 is falsy and -1 truthy
MatchesBareIndex(course, method, searchValue) ==
  indexOf(toLowerCase(course[method]), toLowerCase(searchValue)) # 0

\* The predicate of _classes.find: indexOf(...) + 1 is truthy unless it is 0
MatchThrows(course, method) == course[method] = Undefined
Matches(course, method, searchValue) ==
  indexOf(toLowerCase(course[method]), toLowerCase(searchValue)) + 1 # 0

\* Array.prototype.find: scans in order and stops at the first truthy test;
\* kind "found" carries the course, "null" is `return null`, "TypeError" is
\* toLowerCase called on an undefined field.
RECURSIVE FindFrom(_, _, _, _)
FindFrom(classes, method, searchValue, i) ==
  IF i > Len(classes) THEN [kind |-> "null", val |-> NoCourse]
  ELSE IF MatchThrows(classes[i], method) THEN [kind |-> "TypeError", val |-> NoCourse]
  ELSE IF Matches(classes[i], method, searchValue) THEN [kind |-> "found", val |-> classes[i]]
  ELSE FindFrom(classes, method, searchValue, i + 1)
FindCourse(classes, method, searchValue) == FindFrom(classes, method, searchValue, 1)

\* --------------------------------------------- getClassDetails: categories
\* parseFloat(s): the leading digits and an optional fraction; NaN when s does
\* not start with a digit. v is the integer part, f the fraction's digits.
FNaN == [nan |-> TRUE, v |-> 0, f |-> <<>>]
parseFloat(s) ==
  LET d == leadingDigits(s)
      rest == SubSeq(s, Len(d) + 1, Len(s))
      fr == IF rest # <<>> /\ Head(rest) = "." THEN leadingDigits(Tail(rest)) ELSE <<>>
  IN IF s = Undefined \/ d = <<>> THEN FNaN
     ELSE [nan |-> FALSE, v |-> digitsValue(d), f |-> fr]

\* mutant: the cells are read one place further on
NumAtShifted(a, i) == IF i + 2 <= Len(a) THEN a[i + 2] ELSE [undef |-> TRUE]

\* a[i] of an array of numbers: undefined past the end
NumAt(a, i) == IF i + 1 <= Len(a) THEN a[i + 1] ELSE [undef |-> TRUE]

\* One td[rowspan] cell heads a category: block.row holds the texts of the
\* cells of its own row, block.next those of the following row; hasNext tells
\* whether there is a following row at all.
\* [].slice.call(undefined) throws a TypeError when nextElementSibling is null
CategoryThrows(block) == ~block.hasNext
MapCategory(block) ==
  LET _averages == Shift([i \in 1..Len(block.next) |-> parseFloat(block.next[i])])
      _weights == Shift(Shift([i \in 1..Len(block.row) |-> parseFloat(block.row[i])]))
  IN [name |-> block.name,
      terms |-> [q1 |-> [weight |-> NumAt(_weights, 0), average |-> NumAt(_averages, 0)],
                 q2 |-> [weight |-> NumAt(_weights, 1), average |-> NumAt(_averages, 1)],
                 q3 |-> [weight |-> NumAt(_weights, 2), average |-> NumAt(_averages, 2)],
                 q4 |-> [weight |-> NumAt(_weights, 3), average |-> NumAt(_averages, 3)]]]

\* the evaluate callback of getClassDetails on a detail view
DetailsThrow(detail) == \E i \in 1..Len(detail.blocks) : CategoryThrows(detail.blocks[i])
ParseDetails(detail) ==
  [teacherEmail |-> detail.teacherEmail,
   classSize |-> parseInt(detail.classSize),
   categories |-> [i \in 1..Len(detail.blocks) |-> MapCategory(detail.blocks[i])]]

\* ------------------------------------------------ getAssignments: the rows
\* s.split(sep): the parts of s between the separators
RECURSIVE split(_, _)
split(s, sep) ==
  LET first == splitFirst(s, sep)
  IN IF Len(first) = Len(s) THEN <<first>>
     ELSE <<first>> \o split(SubSeq(s, Len(first) + 2, Len(s)), sep)

\* mutant: the parentheses are left in place
removeNothing(s, c) == s

\* s.replace(c, ''): s without the first occurrence of c
RECURSIVE removeFirst(_, _)
removeFirst(s, c) ==
  IF s = <<>> THEN <<>>
  ELSE IF Head(s) = c THEN Tail(s)
  ELSE <<Head(s)>> \o removeFirst(Tail(s), c)

\* _cols[5]?.split('\t')[2].replace(...) throws when the cell is there and has
\* fewer than three parts
ScoreThrows(cols) == At(cols, 5) # Undefined /\ Len(split(At(cols, 5), "\t")) < 3

\* mutant: the last category of that name is taken
RECURSIVE findCategoryLast(_, _)
findCategoryLast(categories, text) ==
  IF categories = <<>> THEN [undef |-> TRUE]
  ELSE IF categories[Len(categories)].name = text THEN categories[Len(categories)]
  ELSE findCategoryLast(SubSeq(categories, 1, Len(categories) - 1), text)

\* _course?.categories: the optional chain ends in undefined when _course is
\* null, and find is then not called; the lookup's result is undefined as it
\* is on an empty list
CourseCategories(c) == IF c.kind = "found" THEN c.details.categories ELSE <<>>

\* _course?.categories.find(c => c.name === text): undefined when none matches
RECURSIVE findCategory(_, _)
findCategory(categories, text) ==
  IF categories = <<>> THEN [undef |-> TRUE]
  ELSE IF Head(categories).name = text THEN Head(categories)
  ELSE findCategory(Tail(categories), text)

MapAssignment(cols, categories) ==
  LET cell == At(cols, 5)
      parts == IF cell = Undefined THEN <<>> ELSE split(cell, "\t")
  IN [assignmentName |-> At(cols, 1),
      category |-> findCategory(categories, At(cols, 2)),
      dateAssigned |-> At(cols, 3),
      dateDue |-> At(cols, 4),
      score |-> [percent |-> parseFloat(At(parts, 0)),
                 fraction |-> At(parts, 1),
                 raw |-> parseFloat(IF cell = Undefined THEN Undefined
                                    ELSE removeFirst(removeFirst(At(parts, 2), "("), ")"))]]

\* the evaluate callback of getAssignments: map every row, then drop the first
ParseAssignments(rows, categories) ==
  IF \E i \in 1..Len(rows) : ScoreThrows(rows[i])
  THEN [kind |-> "TypeError", val |-> <<>>]
  ELSE [kind |-> "ok", val |-> Shift([i \in 1..Len(rows) |-> MapAssignment(rows[i], categories)])]

\* ------------------------------------------------------------ sample data
Cell(id, text) == [id |-> id, innerText |-> text]
CourseRow(id, name, section, teacher, absences) ==
  <<Cell(<<>>, CheckboxText), Cell(id, name), Cell(<<>>, section),
    Cell(<<>>, <<"F", "Y">>), Cell(<<>>, teacher), Cell(<<>>, <<"1">>),
    Cell(<<>>, absences), Cell(<<>>, <<"0">>), Cell(<<>>, <<"0">>)>>
HeaderRow == <<>>
RowA == CourseRow(<<"r", "1">>, <<"A", "b">>, <<"A", "1", "-", "2">>, <<"S", "a", "m">>, <<"2">>)
RowB == CourseRow(<<"r", "2">>, <<"a", "B">>, <<"B", "1">>, <<"M", "s">>, <<"1", "0">>)
RowC == CourseRow(<<"r", "3">>, <<"B", "a">>, <<"-", "3">>, <<"s", "a", "m">>, <<>>)
\* rows that lack columns: no section cell, and no teacher cell
RowNoSection == <<Cell(<<>>, CheckboxText), Cell(<<"r", "4">>, <<"A", "b">>)>>
RowNoTeacher == <<Cell(<<>>, CheckboxText), Cell(<<"r", "5">>, <<"b">>), Cell(<<>>, <<"A", "1">>)>>
\* the grid the portal serves on the class list, and on the GPA summary
PortalGrid == <<HeaderRow, RowA, RowB>>
GpaGrid == <<HeaderRow, <<Cell(<<>>, <<"Q", "1">>), Cell(<<>>, <<"3">>)>>>>

\* the rows the class list shows for a year and a term code
markingPeriods ==
  [q1 |-> "GTMp1000026Gdh", q2 |-> "GTMp1000026Gdi", q3 |-> "GTMp1000026Gdj",
   q4 |-> "GTMp1000026Gdk", all |-> "all"]
CatalogFor(f) ==
  IF f.year = "current"
  THEN (IF f.term = "all" THEN PortalGrid ELSE <<HeaderRow, RowA>>)
  ELSE (IF f.term = "all" THEN <<HeaderRow, RowC, RowB>> ELSE <<HeaderRow, RowC>>)
\* the detail view of a course, and the rows of its assignments tab
PortalDetail ==
  [teacherEmail |-> <<"t", "@", "s">>, classSize |-> <<"2", "4">>,
   blocks |-> <<[name |-> <<"H", "W">>, hasNext |-> TRUE,
                 row |-> <<<<"H", "W">>, <<"W">>, <<"4", "0">>, <<"4", "0">>>>,
                 next |-> <<<<"A">>, <<"9", "1", ".", "5">>, <<>>>>]>>]
TextRow(texts) == [j \in 1..Len(texts) |-> Cell(<<>>, texts[j])]
AssignGrid ==
  <<HeaderRow,
    TextRow(<<<<>>, <<"E", "1">>, <<"H", "W">>, <<"9", "/", "1">>, <<"9", "/", "2">>,
              <<"8", "3", "%", "\t", "5", "/", "6", "\t", "(", "8", "3", ")">>>>),
    TextRow(<<<<>>, <<"E", "2">>, <<"Q">>, <<"9", "/", "3">>, <<"9", "/", "4">>,
              <<"1", "0", "0", "%", "\t", "2", "/", "2", "\t", "(", "1", "0", "0", ")">>>>)>>
\* the profile view's input fields
PortalProfile ==
  [studentId |-> <<"7">>, name |-> <<"A", "b">>,
   school |-> [name |-> <<"B", "L", "S">>, id |-> <<"1">>, counselor |-> <<"M", "s">>],
   sasid |-> <<"9">>, grade |-> <<"1", "0">>, email |-> <<"a", "@", "s">>]
NoProfile ==
  [studentId |-> Undefined, name |-> Undefined,
   school |-> [name |-> Undefined, id |-> Undefined, counselor |-> Undefined],
   sasid |-> Undefined, grade |-> Undefined, email |-> Undefined]

\* ------------------------------------------------------------------ state
Tasks == {1, 2}
Pages == 1..MaxLogins
Extractors == {"getStudentInfo", "getClasses", "getClassDetails", "getAssignments"}
YearTerms == {[year |-> "current", term |-> "all"], [year |-> "previous", term |-> "q2"]}
\* a search by course name in the previous year's second quarter, and a search
\* by teacher that matches no course, with the options left out
SearchArgs ==
  {[method |-> "courseName", search |-> <<"b">>, options |-> TRUE,
    year |-> "previous", term |-> "q2"],
   [method |-> "teacherName", search |-> <<"z">>, options |-> FALSE,
    year |-> "current", term |-> "all"]}
AssignTerms == {"q3"}
NoArg == [none |-> TRUE]
NoValue == [kind |-> "none"]
NoLast == [arg |-> NoArg, value |-> NoValue]
NoFound == [kind |-> "none", val |-> NoCourse]
NoCalc == [stage |-> "none"]
DefaultFilter == [year |-> "current", term |-> "all"]
EmptyForm == [user |-> "empty", pass |-> "empty"]

VARIABLES
  loggedIn,    \* this.loggedIn
  browser,     \* this.browser: 0 before the first launch, else the browser's number
  page,        \* this.page: 0 before the first newPage, else the page's number
  launched,    \* how many browsers puppeteer has launched
  opened,      \* how many pages have been opened
  session,     \* session[b]: the portal holds a logged-in session for browser b
  pg,          \* pg[p]: page p (see ClosedPage)
  unhandled,   \* the un-awaited promises ("click", "wait") whose rejection was dropped
  everValid,   \* some login call was given valid credentials
  calls,       \* how many public operations have been invoked
  task,        \* task[t]: the call caller t has made (see IdleTask)
  last,        \* the arguments and result of a getClassDetails that returned, until
               \* the next public operation is invoked
  calc         \* the inputs and results of the row-parsing specification

vars == <<loggedIn, browser, page, launched, opened, session, pg, unhandled,
          everValid, calls, task, last, calc>>

\* A page: the browser it was opened in, the document it shows, what has been
\* typed into its logon form, the view a navigation under way will load, the
\* un-awaited clicks issued on it and not yet landed, whether an un-awaited
\* waitForSelector('#mainTable') is pending, the year and term selected in the
\* class list's filters, and the year and term whose rows its grid shows.
ClosedPage ==
  [inBrowser |-> 0, view |-> "closed", form |-> EmptyForm, pendNav |-> "none",
   pendClick |-> {}, pendWait |-> FALSE, filter |-> DefaultFilter,
   shown |-> DefaultFilter]

\* A call: the public operation, its arguments, the await it is suspended at,
\* the page (or browser) the awaited call was issued on, whether a navigation
\* finished on that page since waitForNavigation, _course, what the operation
\* resolved with, "returned" or "threw", the exception raised inside it, the
\* page interactions it has issued so far, and what the call just before it
\* returned when that was a getClassDetails with the same arguments.  The
\* locals end with the call.
IdleTask ==
  [op |-> "none", arg |-> NoArg, pc |-> "idle", tgt |-> 0, navSeen |-> FALSE,
   course |-> NoFound, value |-> NoValue, outcome |-> "none", thrown |-> "none",
   acts |-> {}, prev |-> NoValue]

Init ==
  /\ loggedIn = FALSE
  /\ browser = 0
  /\ page = 0
  /\ launched = 0
  /\ opened = 0
  /\ session = [b \in Pages |-> FALSE]
  /\ pg = [p \in Pages |-> ClosedPage]
  /\ unhandled = {}
  /\ everValid = FALSE
  /\ calls = 0
  /\ task = [t \in Tasks |-> IdleTask]
  /\ last = NoLast
  /\ calc = NoCalc

\* ------------------------------------------------------- the portal's pages
\* the selectors the client waits for or acts on, per view
HasSel(v, sel) ==
  CASE sel \in {"input#username", "input#password", "#logonButton"}
         -> v \in {"logon", "logonError"}
    [] sel = "div.messageText" -> v = "logonError"
    [] sel = "#dataGrid" -> v \in {"gpa", "classList", "assignments"}
    [] sel \in {"yearFilter", "termFilter"} -> v = "classList"
    [] sel = "#dataGridRight" -> v = "classDetail"
    [] sel = "#gradeTermOid" -> v = "assignments"
    [] sel = "#mainTable" -> v = "profile"
    [] OTHER -> FALSE

\* page.goto(url) on p: the portal serves the view to a logged-in session and
\* the logon form to any other; the document is new
Served(p, target) ==
  IF session[pg[p].inBrowser] \/ target = "logon" THEN target ELSE "logon"
\* a pending waitForSelector('#mainTable') has resolved when the view it was
\* waiting on showed the element
StillWaiting(p) == pg[p].pendWait /\ ~HasSel(pg[p].view, "#mainTable")
Loaded(p, target) ==
  [pg[p] EXCEPT !.view = Served(p, target), !.form = EmptyForm, !.pendNav = "none",
                !.pendWait = StillWaiting(p),
                !.filter = DefaultFilter, !.shown = DefaultFilter]

\* page.type(selector, text) appends text to what the field holds
Typed(old, valid) == IF old = "empty" THEN (IF valid THEN "good" ELSE "bad") ELSE "mixed"

\* the rows under '#dataGrid' on page p
GridOf(p) ==
  CASE pg[p].view = "classList" -> CatalogFor(pg[p].shown)
    [] pg[p].view = "gpa" -> GpaGrid
    [] pg[p].view = "assignments" -> AssignGrid
    [] OTHER -> <<>>

\* tbody?.lastElementChild?.lastElementChild?.innerText
LastCellText(grid) ==
  IF grid = <<>> \/ grid[Len(grid)] = <<>> THEN Undefined
  ELSE grid[Len(grid)][Len(grid[Len(grid)])].innerText

\* the texts of the td cells of each row: what getAssignments reads
RowTexts(grid) ==
  [i \in 1..Len(grid) |-> [j \in 1..Len(grid[i]) |-> grid[i][j].innerText]]

\* ------------------------------------------------------------ a call's steps
\* the call moves on to its next await, issued on this.page
Moved(r, next, what) == [r EXCEPT !.pc = next, !.tgt = page, !.acts = @ \cup what]
\* the call ends
Settled(r, how, exc, val) ==
  [IdleTask EXCEPT !.op = r.op, !.pc = "done", !.outcome = how, !.thrown = exc,
                   !.value = val]
Thrown(r, exc) == Settled(r, "threw", exc, NoValue)
\* waitForNavigation of a call waiting on p resolves once p has navigated
Seen(r, p) == [r EXCEPT !.navSeen = @ \/ (r.pc = "lg_nav" /\ r.tgt = p)]
\* task t becomes r; page p, when not 0, has navigated.  A getClassDetails
\* that returns is remembered until the next public operation is invoked.
Step(t, r, p) ==
  /\ task' = [u \in Tasks |-> IF u = t THEN r ELSE Seen(task[u], p)]
  /\ last' = IF r.pc = "done" /\ r.op = "getClassDetails" /\ r.outcome = "returned"
                 /\ task[t].pc \notin {"idle", "done"}
              THEN [arg |-> task[t].arg, value |-> r.value]
              ELSE IF task[t].pc \in {"idle", "done"} THEN NoLast
              ELSE last

\* A public operation is invoked.  The two callers are interchangeable: the
\* second is used only while the first has a call in progress.
Begin(t) ==
  /\ task[t].pc \in {"idle", "done"}
  /\ t = 1 \/ task[1].pc \notin {"idle", "done"}
  /\ calls < MaxCalls
  /\ calls' = calls + 1
  /\ UNCHANGED calc

\* ------------------------------------------------------------------ login
\* mutant: the readiness check never throws
checkForClientReadinessSkipped == TRUE

\* #checkForClientReadiness: TRUE when it returns, FALSE when it throws
checkForClientReadiness == loggedIn

\* mutant: every await of login sits inside the chain that ends in .catch
CaughtEverywhere(step) == TRUE

\* which awaits of login sit inside the promise chain that ends in .catch
Caught(step) == step \in {"lg_click", "lg_nav", "lg_query"}

\* mutants: the .catch handler clears this.loggedIn, or sets it
afterCatchClears(flag) == FALSE
afterCatchSets(flag) == TRUE

\* the .catch handler returns 401 and leaves this.loggedIn as it finds it
afterCatch(flag) == flag

\* mutant: the .then sets this.loggedIn without looking at the element
ClassifyBlind(found, flag) == [flag |-> TRUE, exc |-> "none"]

\* the .then after waitForNavigation: what becomes of this.loggedIn, and the
\* exception raised, given whether page.$('div.messageText') found an element
Classify(found, flag) ==
  IF found THEN [flag |-> flag, exc |-> "LoginFailed"]
  ELSE [flag |-> TRUE, exc |-> "none"]

\* a rejection at an await of login: swallowed inside the chain (login then
\* returns this), thrown to the caller outside it
Reject(t, exc) ==
  IF Caught(task[t].pc)
  THEN /\ Step(t, Settled(task[t], "returned", exc, [kind |-> "client"]), 0)
       /\ loggedIn' = afterCatch(loggedIn)
  ELSE /\ Step(t, Thrown(task[t], exc), 0)
       /\ UNCHANGED loggedIn

\* login(id, password) is invoked: init() calls puppeteer.launch and suspends
login(t) ==
  \E valid \in BOOLEAN :
    /\ launched + Cardinality({u \in Tasks : task[u].pc = "in_launch"}) < MaxLogins
    /\ Begin(t)
    /\ Step(t, [IdleTask EXCEPT !.op = "login", !.arg = [valid |-> valid],
                                !.pc = "in_launch"], 0)
    /\ everValid' = (everValid \/ valid)
    /\ UNCHANGED <<loggedIn, browser, page, launched, opened, session, pg, unhandled>>

\* launch settles: this.browser is assigned and newPage is called on it
initLaunch(t) ==
  /\ task[t].pc = "in_launch"
  /\ \E ok \in BOOLEAN :
       IF ok
       THEN /\ launched' = launched + 1
            /\ browser' = launched + 1
            /\ Step(t, [task[t] EXCEPT !.pc = "in_newPage", !.tgt = launched + 1], 0)
            /\ UNCHANGED loggedIn
       ELSE /\ Reject(t, "PageError")
            /\ UNCHANGED <<launched, browser>>
  /\ UNCHANGED <<page, opened, session, pg, unhandled, everValid, calls, calc>>

\* newPage settles: this.page is assigned and goto(logon.do) is called on it
initNewPage(t) ==
  /\ task[t].pc = "in_newPage"
  /\ \E ok \in BOOLEAN :
       IF ok
       THEN /\ opened' = opened + 1
            /\ page' = opened + 1
            /\ pg' = [pg EXCEPT ![opened + 1] =
                        [ClosedPage EXCEPT !.inBrowser = task[t].tgt, !.view = "blank"]]
            /\ Step(t, [task[t] EXCEPT !.pc = "in_goto", !.tgt = opened + 1,
                                       !.acts = @ \cup {"goto:logon"}], 0)
            /\ UNCHANGED loggedIn
       ELSE /\ Reject(t, "PageError")
            /\ UNCHANGED <<opened, page, pg>>
  /\ UNCHANGED <<browser, launched, session, unhandled, everValid, calls, calc>>

\* goto settles: init returns and login types the id into this.page
initGoto(t) ==
  /\ task[t].pc = "in_goto"
  /\ \E ok \in BOOLEAN :
       IF ok
       THEN /\ pg' = [pg EXCEPT ![task[t].tgt] = Loaded(task[t].tgt, "logon")]
            /\ Step(t, Moved(task[t], "lg_typeId", {"type:username"}), task[t].tgt)
            /\ UNCHANGED loggedIn
       ELSE /\ Reject(t, "PageError")
            /\ UNCHANGED pg
  /\ UNCHANGED <<browser, page, launched, opened, session, unhandled, everValid,
                 calls, calc>>

\* type(username) settles: the password is typed into this.page
loginTypeId(t) ==
  /\ task[t].pc = "lg_typeId"
  /\ \E ok \in BOOLEAN :
       IF ok /\ HasSel(pg[task[t].tgt].view, "input#username")
       THEN /\ pg' = [pg EXCEPT ![task[t].tgt].form.user = Typed(@, task[t].arg.valid)]
            /\ Step(t, Moved(task[t], "lg_typePassword", {"type:password"}), 0)
            /\ UNCHANGED loggedIn
       ELSE /\ Reject(t, "PageError")
            /\ UNCHANGED pg
  /\ UNCHANGED <<browser, page, launched, opened, session, unhandled, everValid,
                 calls, calc>>

\* type(password) settles: evaluate(click #logonButton) is called on this.page
loginTypePassword(t) ==
  /\ task[t].pc = "lg_typePassword"
  /\ \E ok \in BOOLEAN :
       IF ok /\ HasSel(pg[task[t].tgt].view, "input#password")
       THEN /\ pg' = [pg EXCEPT ![task[t].tgt].form.pass = Typed(@, task[t].arg.valid)]
            /\ Step(t, Moved(task[t], "lg_click", {"click:logon"}), 0)
            /\ UNCHANGED loggedIn
       ELSE /\ Reject(t, "PageError")
            /\ UNCHANGED pg
  /\ UNCHANGED <<browser, page, launched, opened, session, unhandled, everValid,
                 calls, calc>>

\* the click ran in the page: the form is submitted with what the fields hold,
\* and waitForNavigation is called on this.page
loginClick(t) ==
  /\ task[t].pc = "lg_click"
  /\ \E ok \in BOOLEAN :
       IF ok /\ HasSel(pg[task[t].tgt].view, "#logonButton")
       THEN /\ pg' = [pg EXCEPT ![task[t].tgt].pendNav =
                        IF pg[task[t].tgt].form = [user |-> "good", pass |-> "good"]
                        THEN "home" ELSE "logonError"]
            /\ Step(t, [Moved(task[t], "lg_nav", {"waitForNavigation"})
                          EXCEPT !.navSeen = FALSE], 0)
            /\ UNCHANGED loggedIn
       ELSE /\ Reject(t, "PageError")
            /\ UNCHANGED pg
  /\ UNCHANGED <<browser, page, launched, opened, session, unhandled, everValid,
                 calls, calc>>

\* the navigation a submitted form or a landed click started reaches its view
navComplete(p) ==
  /\ pg[p].pendNav # "none"
  /\ pg' = [pg EXCEPT ![p].view = pg[p].pendNav, ![p].form = EmptyForm,
                      ![p].pendNav = "none", ![p].pendWait = StillWaiting(p)]
  /\ session' = [session EXCEPT ![pg[p].inBrowser] = @ \/ pg[p].pendNav = "home"]
  /\ task' = [u \in Tasks |-> Seen(task[u], p)]
  /\ UNCHANGED <<loggedIn, browser, page, launched, opened, unhandled, everValid,
                 calls, last, calc>>

\* waitForNavigation settles (it resolves once the page has navigated, and
\* rejects on its timeout): page.$('div.messageText') is called on this.page
loginNav(t) ==
  /\ task[t].pc = "lg_nav"
  /\ \E ok \in BOOLEAN :
       IF ok
       THEN /\ task[t].navSeen
            /\ Step(t, Moved(task[t], "lg_query", {"query:messageText"}), 0)
            /\ UNCHANGED loggedIn
       ELSE Reject(t, "Timeout")
  /\ UNCHANGED <<browser, page, launched, opened, session, pg, unhandled, everValid,
                 calls, calc>>

\* page.$ settles: LoginFailedError is thrown (and caught) when the element is
\* there, this.loggedIn is set when it is not; login returns this
loginQuery(t) ==
  /\ task[t].pc = "lg_query"
  /\ \E ok \in BOOLEAN :
       IF ok
       THEN LET c == Classify(HasSel(pg[task[t].tgt].view, "div.messageText"), loggedIn)
            IN IF c.exc = "none"
               THEN /\ loggedIn' = c.flag
                    /\ Step(t, Settled(task[t], "returned", "none", [kind |-> "client"]), 0)
               ELSE Reject(t, c.exc)
       ELSE Reject(t, "PageError")
  /\ UNCHANGED <<browser, page, launched, opened, session, pg, unhandled, everValid,
                 calls, calc>>

\* ------------------------------------------------------------- extractors
\* an extractor is invoked: the readiness check runs first, synchronously; when
\* it passes, the first page call is issued on this.page and the call suspends
Start(t, o, a, next, what) ==
  /\ IF checkForClientReadiness
     THEN Step(t, [IdleTask EXCEPT !.op = o, !.arg = a, !.pc = next, !.tgt = page,
                                   !.acts = what,
                                   !.prev = IF o = "getClassDetails" /\ last.arg = a
                                            THEN last.value ELSE NoValue], 0)
     ELSE Step(t, Thrown([IdleTask EXCEPT !.op = o], "NotReady"), 0)
  /\ UNCHANGED <<loggedIn, browser, page, launched, opened, session, pg, unhandled,
                 everValid>>

\* an awaited call settles and the next is issued, or the call's error is thrown
Advance(t, ok, next, what, exc) ==
  /\ IF ok THEN Step(t, Moved(task[t], next, what), 0)
     ELSE Step(t, Thrown(task[t], exc), 0)
  /\ UNCHANGED <<loggedIn, browser, page, launched, opened, session, pg, unhandled,
                 everValid, calls, calc>>

\* page.goto(url) settles on the page it was called on, and the next call is issued
Goto(t, target, next, what) ==
  /\ \E ok \in BOOLEAN :
       IF ok
       THEN /\ pg' = [pg EXCEPT ![task[t].tgt] = Loaded(task[t].tgt, target)]
            /\ Step(t, Moved(task[t], next, what), task[t].tgt)
       ELSE /\ Step(t, Thrown(task[t], "PageError"), 0)
            /\ UNCHANGED pg
  /\ UNCHANGED <<loggedIn, browser, page, launched, opened, session, unhandled,
                 everValid, calls, calc>>

\* the options of getClassDetails default to the current year and all terms
Options(a) == IF a.options THEN [year |-> a.year, term |-> a.term] ELSE DefaultFilter

\* ---------------------------------------------------------- getStudentInfo
getStudentInfo(t) ==
  /\ Begin(t)
  /\ Start(t, "getStudentInfo", NoArg, "si_goto1", {"goto:gpa"})

infoGoto1(t) ==
  /\ task[t].pc = "si_goto1"
  /\ Goto(t, "gpa", "si_wait", {"wait:#dataGrid"})

\* waitForSelector('#dataGrid') resolves when the element is in the page
infoWait(t) ==
  /\ task[t].pc = "si_wait"
  /\ Advance(t, HasSel(pg[task[t].tgt].view, "#dataGrid"), "si_readGpa",
             {"read:gpa"}, "Timeout")

\* the GPA's evaluate settles: the last cell of the last row is kept
infoReadGpa(t) ==
  /\ task[t].pc = "si_readGpa"
  /\ \E ok \in BOOLEAN :
       IF ok
       THEN Step(t, [Moved(task[t], "si_goto2", {"goto:profile"}) EXCEPT
                       !.value = [kind |-> "gpa",
                                  gpa |-> LastCellText(GridOf(task[t].tgt))]], 0)
       ELSE Step(t, Thrown(task[t], "PageError"), 0)
  /\ UNCHANGED <<loggedIn, browser, page, launched, opened, session, pg, unhandled,
                 everValid, calls, calc>>

\* the second goto settles: waitForSelector('#mainTable') is called on this.page
\* and not awaited, and the profile's evaluate is called right after it
infoGoto2(t) ==
  /\ task[t].pc = "si_goto2"
  /\ \E ok \in BOOLEAN :
       IF ok
       THEN /\ pg' = [[pg EXCEPT ![task[t].tgt] = Loaded(task[t].tgt, "profile")]
                        EXCEPT ![page].pendWait = TRUE]
            /\ Step(t, Moved(task[t], "si_readProfile",
                             {"wait:#mainTable", "read:profile"}), task[t].tgt)
       ELSE /\ Step(t, Thrown(task[t], "PageError"), 0)
            /\ UNCHANGED pg
  /\ UNCHANGED <<loggedIn, browser, page, launched, opened, session, unhandled,
                 everValid, calls, calc>>

\* the un-awaited waitForSelector settles: its rejection reaches no handler
waitLapse(p) ==
  /\ pg[p].pendWait
  /\ pg' = [pg EXCEPT ![p].pendWait = FALSE]
  /\ unhandled' = IF HasSel(pg[p].view, "#mainTable") THEN unhandled
                   ELSE unhandled \cup {"wait"}
  /\ UNCHANGED <<loggedIn, browser, page, launched, opened, session, everValid,
                 calls, task, last, calc>>

\* the profile's evaluate settles: getStudentInfo returns the fields and the GPA
infoReadProfile(t) ==
  /\ task[t].pc = "si_readProfile"
  /\ \E ok \in BOOLEAN :
       IF ok
       THEN Step(t, Settled(task[t], "returned", "none",
                            [kind |-> "profile",
                             info |-> IF pg[task[t].tgt].view = "profile"
                                      THEN PortalProfile ELSE NoProfile,
                             gpa |-> task[t].value.gpa]), 0)
       ELSE Step(t, Thrown(task[t], "PageError"), 0)
  /\ UNCHANGED <<loggedIn, browser, page, launched, opened, session, pg, unhandled,
                 everValid, calls, calc>>

\* --------------------------------------------------------------- getClasses
getClasses(t) ==
  \E o \in YearTerms :
    /\ Begin(t)
    /\ Start(t, "getClasses", [options |-> TRUE, year |-> o.year, term |-> o.term],
             "gc_goto", {"goto:classList"})

classesGoto(t) ==
  /\ task[t].pc = "gc_goto"
  /\ Goto(t, "classList", "gc_wait1", {"wait:#dataGrid"})

classesWait1(t) ==
  /\ task[t].pc = "gc_wait1"
  /\ Advance(t, HasSel(pg[task[t].tgt].view, "#dataGrid"), "gc_year",
             {"select:yearFilter"}, "Timeout")

\* page.select settles: the option is selected, and the grid reloads later
Select(t, sel, chosen, next) ==
  /\ \E ok \in BOOLEAN :
       IF ok /\ HasSel(pg[task[t].tgt].view, sel)
       THEN /\ pg' = [pg EXCEPT ![task[t].tgt].filter = chosen]
            /\ Step(t, Moved(task[t], next, {"wait:#dataGrid"}), 0)
       ELSE /\ Step(t, Thrown(task[t], "PageError"), 0)
            /\ UNCHANGED pg
  /\ UNCHANGED <<loggedIn, browser, page, launched, opened, session, unhandled,
                 everValid, calls, calc>>

classesYear(t) ==
  /\ task[t].pc = "gc_year"
  /\ Select(t, "yearFilter",
            [pg[task[t].tgt].filter EXCEPT !.year = Options(task[t].arg).year], "gc_wait2")

classesWait2(t) ==
  /\ task[t].pc = "gc_wait2"
  /\ Advance(t, HasSel(pg[task[t].tgt].view, "#dataGrid"), "gc_term",
             {"select:termFilter"}, "Timeout")

classesTerm(t) ==
  /\ task[t].pc = "gc_term"
  /\ Select(t, "termFilter",
            [pg[task[t].tgt].filter EXCEPT !.term = markingPeriods[Options(task[t].arg).term]],
            "gc_wait3")

classesWait3(t) ==
  /\ task[t].pc = "gc_wait3"
  /\ Advance(t, HasSel(pg[task[t].tgt].view, "#dataGrid"), "gc_read",
             {"read:classes"}, "Timeout")

\* the grid of a class list catches up with the selected filters
gridRefresh(p) ==
  /\ pg[p].view = "classList"
  /\ pg[p].shown # pg[p].filter
  /\ pg' = [pg EXCEPT ![p].shown = pg[p].filter]
  /\ UNCHANGED <<loggedIn, browser, page, launched, opened, session, unhandled,
                 everValid, calls, task, last, calc>>

\* ---------------------------------------- getClassDetails / getAssignments
getClassDetails(t) ==
  \E a \in SearchArgs :
    /\ Begin(t)
    /\ Start(t, "getClassDetails", a, "gc_goto", {"goto:classList"})

getAssignments(t) ==
  \E a \in SearchArgs, q \in AssignTerms :
    /\ Begin(t)
    /\ Start(t, "getAssignments",
             [method |-> a.method, search |-> a.search, options |-> a.options,
              year |-> a.year, term |-> a.term, filterTerm |-> q],
             "gc_goto", {"goto:classList"})

\* Promise.all([waitForNavigation, click(sel)]) is built and dropped: the click
\* is under way on this.page and nothing awaits it
FireClick(kind) == pg' = [pg EXCEPT ![page].pendClick = @ \cup {kind}]

\* getAssignments resumes with _course, a course or null alike: the tab click
\* is fired and '#gradeTermOid' awaited
ToAssignments(t, c) ==
  /\ FireClick("tab")
  /\ Step(t, [Moved(task[t], "as_wait1", {"click:tab", "wait:#gradeTermOid"})
                EXCEPT !.course = c], 0)

\* the evaluate of getClasses settles; getClasses returns, and a getClassDetails
\* that called it searches the list, clicks the course found and awaits its grid
classesRead(t) ==
  /\ task[t].pc = "gc_read"
  /\ \E ok \in BOOLEAN :
       LET r == ParseClasses(GridOf(task[t].tgt))
           f == IF r.kind = "ok" /\ task[t].op # "getClasses"
                THEN FindCourse(r.val, task[t].arg.method, task[t].arg.search)
                ELSE NoFound
       IN IF ~ok THEN /\ Step(t, Thrown(task[t], "PageError"), 0)
                      /\ UNCHANGED pg
          ELSE IF r.kind = "TypeError" \/ f.kind = "TypeError"
          THEN /\ Step(t, Thrown(task[t], "TypeError"), 0)
               /\ UNCHANGED pg
          ELSE IF task[t].op = "getClasses"
          THEN /\ Step(t, Settled(task[t], "returned", "none",
                                  [kind |-> "classes", val |-> r.val]), 0)
               /\ UNCHANGED pg
          ELSE IF f.kind = "found"
          THEN /\ FireClick("course")
               /\ Step(t, [Moved(task[t], "cd_wait", {"click:course", "wait:#dataGridRight"})
                             EXCEPT !.course = f], 0)
          ELSE IF task[t].op = "getClassDetails"
          THEN /\ Step(t, Settled(task[t], "returned", "none", [kind |-> "null"]), 0)
               /\ UNCHANGED pg
          ELSE ToAssignments(t, f)
  /\ UNCHANGED <<loggedIn, browser, page, launched, opened, session, unhandled,
                 everValid, calls, calc>>

\* a dropped click reaches the page: it starts a navigation when its element is
\* in the view, and otherwise rejects with no handler
ClickTarget(kind, v) ==
  CASE kind = "course" /\ v = "classList" -> "classDetail"
    [] kind = "tab" /\ v \in {"classDetail", "assignments"} -> "assignments"
    [] OTHER -> "none"
clickLand(p) ==
  \E c \in pg[p].pendClick :
    /\ IF ClickTarget(c, pg[p].view) # "none"
       THEN /\ pg' = [pg EXCEPT ![p].pendClick = @ \ {c},
                                ![p].pendNav = ClickTarget(c, pg[p].view)]
            /\ UNCHANGED unhandled
       ELSE /\ pg' = [pg EXCEPT ![p].pendClick = @ \ {c}]
            /\ unhandled' = unhandled \cup {"click"}
    /\ UNCHANGED <<loggedIn, browser, page, launched, opened, session, everValid,
                   calls, task, last, calc>>

detailsWait(t) ==
  /\ task[t].pc = "cd_wait"
  /\ Advance(t, HasSel(pg[task[t].tgt].view, "#dataGridRight"), "cd_read",
             {"read:details"}, "Timeout")

\* the evaluate of getClassDetails settles: the details are merged into _course
detailsRead(t) ==
  /\ task[t].pc = "cd_read"
  /\ \E ok \in BOOLEAN :
       LET c == [kind |-> "found", val |-> task[t].course.val,
                 details |-> ParseDetails(PortalDetail)]
       IN IF ok /\ pg[task[t].tgt].view = "classDetail" /\ DetailsThrow(PortalDetail)
          THEN /\ Step(t, Thrown(task[t], "TypeError"), 0)
               /\ UNCHANGED pg
          ELSE IF ok /\ pg[task[t].tgt].view = "classDetail"
          THEN IF task[t].op = "getClassDetails"
               THEN /\ Step(t, Settled(task[t], "returned", "none", c), 0)
                    /\ UNCHANGED pg
               ELSE ToAssignments(t, c)
          ELSE /\ Step(t, Thrown(task[t], "PageError"), 0)
               /\ UNCHANGED pg
  /\ UNCHANGED <<loggedIn, browser, page, launched, opened, session, unhandled,
                 everValid, calls, calc>>

assignWait1(t) ==
  /\ task[t].pc = "as_wait1"
  /\ Advance(t, HasSel(pg[task[t].tgt].view, "#gradeTermOid"), "as_select",
             {"select:gradeTermOid"}, "Timeout")

assignSelect(t) ==
  /\ task[t].pc = "as_select"
  /\ \E ok \in BOOLEAN :
       Advance(t, ok /\ HasSel(pg[task[t].tgt].view, "#gradeTermOid"),
               "as_wait2", {"wait:#dataGrid>table"}, "PageError")

assignWait2(t) ==
  /\ task[t].pc = "as_wait2"
  /\ Advance(t, HasSel(pg[task[t].tgt].view, "#dataGrid"), "as_read",
             {"read:assignments"}, "Timeout")

\* the evaluate of getAssignments settles with the rows of '#dataGrid > table'
assignRead(t) ==
  /\ task[t].pc = "as_read"
  /\ \E ok \in BOOLEAN :
       LET cats == CourseCategories(task[t].course)
           r == ParseAssignments(RowTexts(GridOf(task[t].tgt)), cats)
       IN IF ~ok THEN Step(t, Thrown(task[t], "PageError"), 0)
          ELSE IF r.kind = "TypeError" THEN Step(t, Thrown(task[t], "TypeError"), 0)
          ELSE Step(t, Settled(task[t], "returned", "none",
                               [kind |-> "assignments", val |-> r.val]), 0)
  /\ UNCHANGED <<loggedIn, browser, page, launched, opened, session, pg, unhandled,
                 everValid, calls, calc>>

\* ------------------------------------------------------------ specification
Next ==
  \/ \E t \in Tasks : login(t)
  \/ \E t \in Tasks : initLaunch(t)
  \/ \E t \in Tasks : initNewPage(t)
  \/ \E t \in Tasks : initGoto(t)
  \/ \E t \in Tasks : loginTypeId(t)
  \/ \E t \in Tasks : loginTypePassword(t)
  \/ \E t \in Tasks : loginClick(t)
  \/ \E t \in Tasks : loginNav(t)
  \/ \E t \in Tasks : loginQuery(t)
  \/ \E t \in Tasks : getStudentInfo(t)
  \/ \E t \in Tasks : infoGoto1(t)
  \/ \E t \in Tasks : infoWait(t)
  \/ \E t \in Tasks : infoReadGpa(t)
  \/ \E t \in Tasks : infoGoto2(t)
  \/ \E t \in Tasks : infoReadProfile(t)
  \/ \E t \in Tasks : getClasses(t)
  \/ \E t \in Tasks : classesGoto(t)
  \/ \E t \in Tasks : classesWait1(t)
  \/ \E t \in Tasks : classesYear(t)
  \/ \E t \in Tasks : classesWait2(t)
  \/ \E t \in Tasks : classesTerm(t)
  \/ \E t \in Tasks : classesWait3(t)
  \/ \E t \in Tasks : classesRead(t)
  \/ \E t \in Tasks : getClassDetails(t)
  \/ \E t \in Tasks : detailsWait(t)
  \/ \E t \in Tasks : detailsRead(t)
  \/ \E t \in Tasks : getAssignments(t)
  \/ \E t \in Tasks : assignWait1(t)
  \/ \E t \in Tasks : assignSelect(t)
  \/ \E t \in Tasks : assignWait2(t)
  \/ \E t \in Tasks : assignRead(t)
  \/ \E p \in Pages : navComplete(p)
  \/ \E p \in Pages : clickLand(p)
  \/ \E p \in Pages : waitLapse(p)
  \/ \E p \in Pages : gridRefresh(p)

Spec == Init /\ [][Next]_vars

\* ------------------------------------------- the row-parsing specification
\* getClasses' parsing and getClassDetails' search applied to every grid of a
\* header row and up to MaxRows rows drawn from the sample rows.
HeaderCells == <<Cell(<<>>, <<"N", "a", "m", "e">>), Cell(<<>>, <<"S">>)>>
Headers == {HeaderRow, HeaderCells}
SampleRows == {RowA, RowB, RowC, RowNoSection, RowNoTeacher}
Queries == {<<>>, <<"a">>, <<"B">>, <<"A", "B">>, <<"s", "A", "m">>, <<"1", "-">>, <<"z">>}
RECURSIVE RowSeqs(_)
RowSeqs(n) ==
  IF n = 0 THEN {<<>>}
  ELSE RowSeqs(n - 1) \cup {Append(g, r) : g \in {h \in RowSeqs(n - 1) : Len(h) = n - 1}, r \in SampleRows}
Grids == {<<h>> \o g : h \in Headers, g \in RowSeqs(MaxRows)}

InitCatalog ==
  /\ loggedIn = FALSE /\ browser = 0 /\ page = 0 /\ launched = 0 /\ opened = 0
  /\ session = [b \in Pages |-> FALSE]
  /\ pg = [p \in Pages |-> ClosedPage]
  /\ unhandled = {} /\ everValid = FALSE /\ calls = 0
  /\ task = [t \in Tasks |-> IdleTask]
  /\ last = NoLast
  /\ \E g \in Grids, m \in Methods, q \in Queries :
       calc = [stage |-> "grid", grid |-> g, method |-> m, query |-> q,
               classes |-> [kind |-> "none", val |-> <<>>], found |-> NoFound]

mainVars == <<loggedIn, browser, page, launched, opened, session, pg, unhandled,
              everValid, calls, task, last>>

\* the evaluate of getClasses and its .then, on the grid
parseGrid ==
  /\ calc.stage = "grid"
  /\ calc' = [calc EXCEPT !.stage = "classes", !.classes = ParseClasses(calc.grid)]
  /\ UNCHANGED mainVars

\* the find of getClassDetails, on the classes getClasses returned
searchClasses ==
  /\ calc.stage = "classes"
  /\ calc.classes.kind = "ok"
  /\ calc' = [calc EXCEPT !.stage = "found",
                          !.found = FindCourse(calc.classes.val, calc.method, calc.query)]
  /\ UNCHANGED mainVars

NextCatalog == parseGrid \/ searchClasses
SpecCatalog == InitCatalog /\ [][NextCatalog]_vars

\* ---------------------------------------- the assignment-rows specification
\* getAssignments' evaluate applied to every grid of a header row and up to
\* MaxRows rows drawn from the sample rows, for a _course that is null, has no
\* categories, or has categories (two of them with the same name).
Score(percent, fraction, raw) == percent \o <<"%", "\t">> \o fraction \o <<"\t", "(">> \o raw \o <<")">>
Score83 == Score(<<"8", "3">>, <<"5", "/", "6">>, <<"8", "3">>)
Score9h == Score(<<"9", ".", "5">>, <<"1", "9", "/", "2">>, <<"9", ".", "5">>)
AssignRow(name, category, score) ==
  <<<<>>, name, category, <<"9", "/", "1">>, <<"9", "/", "2">>, score>>
AssignRows ==
  {AssignRow(<<"E", "1">>, <<"H", "W">>, Score83),
   AssignRow(<<"E", "2">>, <<"Q">>, Score9h),
   AssignRow(<<"E", "3">>, <<"X">>, Score83),
   AssignRow(<<"E", "4">>, <<"H", "W">>, <<"N", "A">>),
   AssignRow(<<"E", "5">>, <<"Q">>, <<"5", "\t", "/">>),
   AssignRow(<<"E", "6">>, <<"H", "W">>, <<>>),
   <<<<>>, <<"E", "7">>>>}
\* a header row of th cells, and one of td cells
AssignHeaders == {<<>>, AssignRow(<<"N">>, <<"C">>, <<"S">>)}
RECURSIVE AssignRowSeqs(_)
AssignRowSeqs(n) ==
  IF n = 0 THEN {<<>>}
  ELSE AssignRowSeqs(n - 1)
       \cup {Append(g, r) : g \in {h \in AssignRowSeqs(n - 1) : Len(h) = n - 1},
                            r \in AssignRows}
AssignGrids == {<<h>> \o g : h \in AssignHeaders, g \in AssignRowSeqs(MaxRows)}

Block(name, weight, average) ==
  [name |-> name, hasNext |-> TRUE,
   row |-> <<name, <<"W">>, weight>>, next |-> <<<<"A">>, average>>]
DetailOf(blocks) == [teacherEmail |-> <<"t">>, classSize |-> <<"2">>, blocks |-> blocks]
SampleDetails ==
  {DetailOf(<<>>),
   DetailOf(<<Block(<<"Q">>, <<"1", "0">>, <<"7">>)>>),
   DetailOf(<<Block(<<"H", "W">>, <<"4", "0">>, <<"9">>), Block(<<"Q">>, <<"1", "0">>, <<"7">>),
              Block(<<"H", "W">>, <<"5", "0">>, <<"8">>)>>)}
SampleCourses ==
  {[kind |-> "null", val |-> NoCourse]}
  \cup {[kind |-> "found", val |-> NoCourse, details |-> ParseDetails(d)] : d \in SampleDetails}

InitAssign ==
  /\ loggedIn = FALSE /\ browser = 0 /\ page = 0 /\ launched = 0 /\ opened = 0
  /\ session = [b \in Pages |-> FALSE]
  /\ pg = [p \in Pages |-> ClosedPage]
  /\ unhandled = {} /\ everValid = FALSE /\ calls = 0
  /\ task = [t \in Tasks |-> IdleTask]
  /\ last = NoLast
  /\ \E g \in AssignGrids, c \in SampleCourses :
       calc = [stage |-> "rows", rows |-> g, course |-> c,
               result |-> [kind |-> "none", val |-> <<>>]]

\* the evaluate of getAssignments, on the rows and _course
parseRows ==
  /\ calc.stage = "rows"
  /\ calc' = [calc EXCEPT !.stage = "parsed",
                          !.result = ParseAssignments(calc.rows, CourseCategories(calc.course))]
  /\ UNCHANGED mainVars

NextAssign == parseRows
SpecAssign == InitAssign /\ [][NextAssign]_vars

\* ------------------------------------------- the category-grid specification
\* getClassDetails' evaluate applied to a detail view with one category whose
\* row has n weight cells and whose following row has m average cells
\* (0..MaxCells each), one of the cells possibly empty, or has no following row.
DigitChars == <<"1", "2", "3", "4", "5", "6", "7", "8", "9">>
\* the text of the k-th weight or average cell: k tens, or nothing when blank
CellText(k, blank) == IF k = blank THEN <<>> ELSE <<DigitChars[k], "0">>
GridBlock(n, bw, m, ba, hasNext) ==
  [name |-> <<"H", "W">>, hasNext |-> hasNext,
   row |-> <<<<"H", "W">>, <<"W">>>> \o [k \in 1..n |-> CellText(k, bw)],
   next |-> <<<<"A">>>> \o [k \in 1..m |-> CellText(k, ba)]]

InitDetail ==
  /\ loggedIn = FALSE /\ browser = 0 /\ page = 0 /\ launched = 0 /\ opened = 0
  /\ session = [b \in Pages |-> FALSE]
  /\ pg = [p \in Pages |-> ClosedPage]
  /\ unhandled = {} /\ everValid = FALSE /\ calls = 0
  /\ task = [t \in Tasks |-> IdleTask]
  /\ last = NoLast
  /\ \E n \in 0..MaxCells, m \in 0..MaxCells, hasNext \in BOOLEAN :
       \E bw \in 0..n, ba \in 0..m :
         /\ hasNext \/ (m = 0 /\ ba = 0)
         /\ calc = [stage |-> "detail", n |-> n, bw |-> bw, m |-> m, ba |-> ba,
                    detail |-> DetailOf(<<GridBlock(n, bw, m, ba, hasNext)>>),
                    result |-> [kind |-> "none"]]

\* the evaluate of getClassDetails, on the detail view
parseDetail ==
  /\ calc.stage = "detail"
  /\ calc' = [calc EXCEPT !.stage = "details",
                          !.result = IF DetailsThrow(calc.detail)
                                     THEN [kind |-> "TypeError"]
                                     ELSE [kind |-> "ok", val |-> ParseDetails(calc.detail)]]
  /\ UNCHANGED mainVars

NextDetail == parseDetail
SpecDetail == InitDetail /\ [][NextDetail]_vars

\* ================================================================== claims
LoginDone(t) == task[t].op = "login" /\ task[t].pc = "done"
\* the step invokes a public operation; LoginInvoked tells a login from an extractor
Invoked == calls' = calls + 1
LoginInvoked == \E t \in Tasks : task'[t].pc = "in_launch" /\ task[t].pc # "in_launch"

\* C1: an extractor invoked while this.loggedIn is false ends in that very step
\* with NotReady, having issued no page call, and leaves every page as it was.
C1_NotReadyBeforeAnyPageCall ==
  [][(Invoked /\ ~LoginInvoked /\ ~loggedIn) =>
       /\ UNCHANGED <<loggedIn, browser, page, launched, opened, session, pg, unhandled>>
       /\ \E t \in Tasks :
            /\ task'[t].op \in Extractors
            /\ task'[t].pc = "done" /\ task'[t].outcome = "threw" /\ task'[t].thrown = "NotReady"
            /\ task'[t].acts = {}
            /\ \A u \in Tasks \ {t} : task'[u].pc = task[u].pc /\ task'[u].acts = task[u].acts]_vars
C1_Witness ==
  /\ ~loggedIn
  /\ \E t \in Tasks :
       task[t].op = "getAssignments" /\ task[t].pc = "done" /\ task[t].thrown = "NotReady" /\ task[t].acts = {}

\* C2: a login that found the error element after its navigation fails with
\* AuthenticationFailed, and the failure reaches the caller of login.
C2_LoginFailedPropagates ==
  \A t \in Tasks : (LoginDone(t) /\ task[t].thrown = "LoginFailed") => task[t].outcome = "threw"

\* C3: a caller that makes its calls one after another (the second caller is
\* never used) and gives no login valid credentials is never logged in, and
\* each of its getClasses calls fails with NotReady.
C3_InvalidLoginLeavesNotReady ==
  (~everValid /\ task[2].pc = "idle") =>
    /\ ~loggedIn
    /\ (task[1].op = "getClasses" /\ task[1].pc # "idle") =>
         (task[1].pc = "done" /\ task[1].outcome = "threw" /\ task[1].thrown = "NotReady")
\* the one caller's login showed the error banner and returned; its next call,
\* getClasses, failed with NotReady
C3_Witness ==
  /\ ~everValid /\ launched = 1 /\ task[2].pc = "idle" /\ ~loggedIn
  /\ pg[1].view = "logonError"
  /\ task[1].op = "getClasses" /\ task[1].pc = "done" /\ task[1].thrown = "NotReady"

\* C4: this.loggedIn starts false, and a step changes it only from false to
\* true, as the step of a login whose waitForNavigation resolved and whose
\* page shows no error element; every other end of a login leaves it alone.
C4_FlagSetOnlyByCleanLogin ==
  /\ loggedIn = FALSE
  /\ [][loggedIn' # loggedIn =>
          /\ ~loggedIn /\ loggedIn'
          /\ \E t \in Tasks :
               /\ task[t].op = "login" /\ task[t].pc = "lg_query" /\ task'[t].pc = "done"
               /\ ~HasSel(pg[task[t].tgt].view, "div.messageText")
               /\ task'[t].outcome = "returned" /\ task'[t].thrown = "none"]_vars
C4_Witness ==
  /\ loggedIn
  /\ \E t \in Tasks : LoginDone(t) /\ task[t].outcome = "returned" /\ task[t].thrown = "none"

\* C5: once this.loggedIn is true no step makes it false.
C5_ReadyIsAbsorbing == [][loggedIn => loggedIn']_vars
\* logged in, with a later login that failed and an extractor that threw
C5_Witness ==
  /\ loggedIn
  /\ \E t \in Tasks : LoginDone(t) /\ task[t].thrown # "none"
  /\ \E t \in Tasks : task[t].op \in Extractors /\ task[t].pc = "done" /\ task[t].outcome = "threw"

\* C6 as stated: a failure at any step of login is swallowed; login returns
\* normally and the client is left not logged in.
C6_EveryFailureSwallowed ==
  \A t \in Tasks :
    (LoginDone(t) /\ task[t].thrown \in {"PageError", "Timeout"}) =>
      (task[t].outcome = "returned" /\ ~loggedIn)
\* C6 amended: a failure of the click, of the wait for the navigation or of the
\* query for the error element is swallowed and login returns normally; a
\* failure of launch, newPage, goto or of typing the credentials is thrown to
\* the caller; in both cases this.loggedIn is left as it was.
C6_FailureSwallowedOnlyInChain ==
  [][\A t \in Tasks :
       (task[t].op = "login" /\ task[t].pc # "done" /\ task'[t].pc = "done"
        /\ task'[t].thrown \in {"PageError", "Timeout"}) =>
         /\ loggedIn' = loggedIn
         /\ task'[t].outcome = IF task[t].pc \in {"lg_click", "lg_nav", "lg_query"}
                          THEN "returned" ELSE "threw"]_vars
C6_Witness ==
  /\ ~loggedIn
  /\ \E t \in Tasks : LoginDone(t) /\ task[t].thrown = "Timeout" /\ task[t].outcome = "returned"
  /\ \E t \in Tasks : LoginDone(t) /\ task[t].thrown = "PageError" /\ task[t].outcome = "threw"

\* C7: operations on one client are serialized, so a call suspended at an
\* evaluate reads the view it navigated to itself (and, on the class list, the
\* filters it selected).
ExpectedView(t) ==
  CASE task[t].pc = "si_readGpa" -> "gpa"
    [] task[t].pc = "si_readProfile" -> "profile"
    [] task[t].pc = "gc_read" -> "classList"
    [] task[t].pc = "cd_read" -> "classDetail"
    [] task[t].pc = "as_read" -> "assignments"
    [] OTHER -> "none"
C7_ReadsOwnView ==
  \A t \in Tasks :
    ExpectedView(t) # "none" =>
      /\ pg[task[t].tgt].view = ExpectedView(t)
      /\ task[t].pc = "gc_read" =>
           pg[task[t].tgt].filter = [year |-> Options(task[t].arg).year,
                             term |-> markingPeriods[Options(task[t].arg).term]]

\* C8: when the course search inside getAssignments found no course, the call
\* issues no click on the assignments tab, no term selection and no read of
\* the assignment rows.
C8_NoTabWithoutCourse ==
  \A t \in Tasks :
    (task[t].op = "getAssignments" /\ task[t].course.kind = "null") =>
      task[t].acts \cap {"click:tab", "wait:#gradeTermOid", "select:gradeTermOid",
                    "read:assignments"} = {}

\* C9: on a catalog whose courses all have the key field, the search returns
\* the earliest course whose lower-cased key field contains the lower-cased
\* query, and returns null exactly when no course does.
ContainsCI(s, q) ==
  \E k \in 0..(Len(s) - Len(q)) :
    \A j \in 1..Len(q) : LowerChar(s[k + j]) = LowerChar(q[j])
Hits == {i \in 1..Len(calc.classes.val) :
           ContainsCI(calc.classes.val[i][calc.method], calc.query)}
KeyFieldsPresent ==
  \A i \in 1..Len(calc.classes.val) : calc.classes.val[i][calc.method] # Undefined
C9_FirstMatchOrNull ==
  (calc.stage = "found" /\ KeyFieldsPresent) =>
    /\ calc.found.kind = "null" <=> Hits = {}
    /\ Hits # {} =>
         /\ calc.found.kind = "found"
         /\ \E i \in Hits : /\ \A j \in Hits : i <= j
                            /\ calc.found.val = calc.classes.val[i]
\* two courses match, in another letter case than the query's, and the first
\* course of the catalog is not one of them
C9_Witness ==
  /\ calc.stage = "found" /\ KeyFieldsPresent
  /\ Cardinality(Hits) >= 2 /\ 1 \notin Hits
  /\ calc.found.kind = "found"
  /\ indexOf(calc.found.val[calc.method], calc.query) = -1

\* C10: on a grid of a header row and N course rows (each with its id, name
\* and section cells), getClasses returns N records, the i-th made from the
\* i-th course row; the header row yields none.
IsCourseRow(row) ==
  /\ Len(row) >= 3
  /\ row[1] = Cell(<<>>, CheckboxText)
  /\ row[2].id # <<>> /\ row[3].id = <<>>
DataRows == SubSeq(calc.grid, 2, Len(calc.grid))
C10_OneRecordPerDataRow ==
  (calc.stage # "grid" /\ \A i \in 1..Len(DataRows) : IsCourseRow(DataRows[i])) =>
    /\ calc.classes.kind = "ok"
    /\ Len(calc.classes.val) = Len(calc.grid) - 1
    /\ \A i \in 1..Len(DataRows) :
         /\ calc.classes.val[i].courseElementId = DataRows[i][2].id
         /\ calc.classes.val[i].courseName = DataRows[i][2].innerText
         /\ calc.classes.val[i].sectionNumber = DataRows[i][3].innerText
\* a header row with cells of its own, followed by MaxRows course rows
C10_Witness ==
  /\ calc.stage = "classes" /\ calc.classes.kind = "ok"
  /\ calc.grid[1] = HeaderCells
  /\ Len(calc.classes.val) = MaxRows
  /\ \A i \in 1..Len(DataRows) : IsCourseRow(DataRows[i])

\* C11: when a caller that makes its calls one after another calls
\* getClassDetails twice in a row with the same arguments, and both calls
\* return, the second returns what the first returned.
C11_SameResultTwice ==
  [][(/\ task[2].pc = "idle"
      /\ task[1].op = "getClassDetails" /\ task[1].pc \notin {"idle", "done"}
      /\ task[1].prev # NoValue
      /\ task'[1].pc = "done" /\ task'[1].outcome = "returned")
     => task'[1].value = task[1].prev]_vars

\* C12: in the list getAssignments returns, the category of each record is the
\* first of _course's categories whose name is the row's category text, and is
\* undefined when there is none (no categories, a null _course and a row
\* without a category cell included); the lookup raises nothing: the evaluate
\* throws only for a score cell of fewer than three parts.
Tabs(s) == Cardinality({i \in 1..Len(s) : s[i] = "\t"})
ShortScore(row) == Len(row) >= 6 /\ Tabs(row[6]) < 2
CategoryText(row) == IF Len(row) >= 3 THEN row[3] ELSE Undefined
NamedLike(row) ==
  {k \in 1..Len(CourseCategories(calc.course)) :
     CourseCategories(calc.course)[k].name = CategoryText(row)}
C12_CategoryIsFirstMatchOrUnset ==
  calc.stage = "parsed" =>
    /\ calc.result.kind = "TypeError" <=> \E i \in 1..Len(calc.rows) : ShortScore(calc.rows[i])
    /\ calc.result.kind = "ok" =>
         /\ Len(calc.result.val) = Len(calc.rows) - 1
         /\ \A i \in 1..Len(calc.result.val) :
              LET hits == NamedLike(calc.rows[i + 1])
              IN IF hits = {} THEN calc.result.val[i].category = [undef |-> TRUE]
                 ELSE \E k \in hits :
                        /\ \A m \in hits : k <= m
                        /\ calc.result.val[i].category = CourseCategories(calc.course)[k]
\* one list with a record whose category is the first of two of that name, a
\* record whose text names no category, and a record of a row without the cell
C12_Witness ==
  /\ calc.stage = "parsed" /\ calc.result.kind = "ok" /\ Len(calc.result.val) = 3
  /\ Cardinality(NamedLike(calc.rows[2])) = 2
  /\ calc.result.val[1].category.terms.q1.weight.v = 40
  /\ CategoryText(calc.rows[3]) = <<"X">> /\ calc.result.val[2].category = [undef |-> TRUE]
  /\ Len(calc.rows[4]) = 2 /\ calc.result.val[3].category = [undef |-> TRUE]
\* a null _course: every category is undefined and nothing is thrown
C12_WitnessNull ==
  /\ calc.stage = "parsed" /\ calc.course.kind = "null"
  /\ calc.result.kind = "ok" /\ Len(calc.result.val) = MaxRows

\* C13: every category getClassDetails' evaluate produces has a terms record
\* with exactly the keys q1..q4; term q(i) holds the i-th weight cell after
\* the two leading cells and the i-th average cell after the leading one, NaN
\* for an empty cell and undefined where the row has no such cell.
ExpectedCell(i, n, blank) ==
  IF i > n THEN [undef |-> TRUE]
  ELSE IF i = blank THEN FNaN
  ELSE [nan |-> FALSE, v |-> 10 * i, f |-> <<>>]
TermKeys == <<"q1", "q2", "q3", "q4">>
C13_TermsAlwaysFourKeys ==
  (calc.stage = "details" /\ calc.result.kind = "ok") =>
    \A c \in 1..Len(calc.result.val.categories) :
      LET terms == calc.result.val.categories[c].terms
      IN /\ DOMAIN terms = {"q1", "q2", "q3", "q4"}
         /\ \A i \in 1..4 :
              /\ DOMAIN terms[TermKeys[i]] = {"weight", "average"}
              /\ terms[TermKeys[i]].weight = ExpectedCell(i, calc.n, calc.bw)
              /\ terms[TermKeys[i]].average = ExpectedCell(i, calc.m, calc.ba)
\* more than four weight cells, the second one empty, and no average cell
C13_Witness ==
  /\ calc.stage = "details" /\ calc.result.kind = "ok"
  /\ calc.n = MaxCells /\ calc.bw = 2 /\ calc.m = 0
  /\ Len(calc.result.val.categories) = 1
  /\ calc.result.val.categories[1].terms.q2.weight = FNaN
  /\ calc.result.val.categories[1].terms.q4.weight.v = 40
  /\ calc.result.val.categories[1].terms.q1.average = [undef |-> TRUE]

\* C14: in every list getClasses returns, each course's courseCode is the part
\* of its sectionNumber before the first '-', and the whole sectionNumber when
\* that has no '-'.
C14_CodeIsSectionPrefix ==
  (calc.stage \in {"classes", "found"} /\ calc.classes.kind = "ok") =>
    \A i \in 1..Len(calc.classes.val) :
      LET section == calc.classes.val[i].sectionNumber
          dash == indexOf(section, <<"-">>)
      IN calc.classes.val[i].courseCode =
           IF dash = -1 THEN section ELSE SubSeq(section, 1, dash)
\* a list with a section cut at its '-', one without a '-', and one that
\* starts with '-'
C14_Witness ==
  /\ calc.stage = "classes" /\ calc.classes.kind = "ok"
  /\ \E i, j, k \in 1..Len(calc.classes.val) :
       /\ calc.classes.val[i].sectionNumber = <<"A", "1", "-", "2">>
       /\ calc.classes.val[i].courseCode = <<"A", "1">>
       /\ calc.classes.val[j].sectionNumber = <<"B", "1">>
       /\ calc.classes.val[j].courseCode = <<"B", "1">>
       /\ calc.classes.val[k].sectionNumber = <<"-", "3">>
       /\ calc.classes.val[k].courseCode = <<>>

\* C15: a score cell "percent% TAB fraction TAB (raw)" is parsed into the
\* number before the '%', the second part as it is, and the number inside the
\* parentheses: "83%\t5/6\t(83)" gives 83, "5/6", 83 and
\* "9.5%\t19/2\t(9.5)" gives 9.5, "19/2", 9.5.
ExpectedScores ==
  {[cell |-> Score83,
    score |-> [percent |-> [nan |-> FALSE, v |-> 83, f |-> <<>>],
               fraction |-> <<"5", "/", "6">>,
               raw |-> [nan |-> FALSE, v |-> 83, f |-> <<>>]]],
   [cell |-> Score9h,
    score |-> [percent |-> [nan |-> FALSE, v |-> 9, f |-> <<"5">>],
               fraction |-> <<"1", "9", "/", "2">>,
               raw |-> [nan |-> FALSE, v |-> 9, f |-> <<"5">>]]]}
C15_ScoreCellParsed ==
  (calc.stage = "parsed" /\ calc.result.kind = "ok") =>
    \A i \in 1..Len(calc.result.val) : \A e \in ExpectedScores :
      (Len(calc.rows[i + 1]) >= 6 /\ calc.rows[i + 1][6] = e.cell) =>
        calc.result.val[i].score = e.score
\* a list with a record of each of the two score cells
C15_Witness ==
  /\ calc.stage = "parsed" /\ calc.result.kind = "ok" /\ Len(calc.result.val) >= 2
  /\ Len(calc.rows[2]) >= 6 /\ Len(calc.rows[3]) >= 6
  /\ calc.rows[2][6] = Score83 /\ calc.result.val[1].score.raw.v = 83
  /\ calc.rows[3][6] = Score9h /\ calc.result.val[2].score.fraction = <<"1", "9", "/", "2">>

\* C16: a row whose score cell has fewer than three tab-separated parts (the
\* header row included) does not make the evaluate of getAssignments throw:
\* a list is returned, with a record for every other data row.
C16_MalformedRowDoesNotAbort ==
  calc.stage = "parsed" =>
    /\ calc.result.kind = "ok"
    /\ \A i \in 2..Len(calc.rows) :
         ~ShortScore(calc.rows[i]) =>
           \E k \in 1..Len(calc.result.val) :
             calc.result.val[k].assignmentName = At(calc.rows[i], 1)

\* C17: for a caller that makes its calls one after another, the click on the
\* course (in getClassDetails) or on the assignments tab (in getAssignments)
\* and the navigation it starts are over when the following waitForSelector
\* is under way; the evaluate after it reads the view the click led to; and no
\* rejection of a click is dropped.
C17_ClickCompletesBeforeWait ==
  task[2].pc = "idle" =>
    /\ "click" \notin unhandled
    /\ task[1].pc \in {"cd_wait", "as_wait1"} =>
         (pg[task[1].tgt].pendClick = {} /\ pg[task[1].tgt].pendNav = "none")
    /\ task[1].pc = "cd_read" => pg[task[1].tgt].view = "classDetail"
    /\ task[1].pc = "as_read" => pg[task[1].tgt].view = "assignments"

\* C18: for a caller that makes its calls one after another, when the wait
\* after the term filter's change is over and getClasses is about to read the
\* rows, the grid shows the rows of the requested year and term.
Requested(a) == [year |-> Options(a).year, term |-> markingPeriods[Options(a).term]]
C18_RowsOfRequestedFilter ==
  (task[2].pc = "idle" /\ task[1].pc = "gc_read" /\ task[1].op = "getClasses") =>
    pg[task[1].tgt].shown = Requested(task[1].arg)

\* C19: for a caller that has made its calls one after another, whenever
\* this.loggedIn is true and no call is in progress, this.page is a page of a
\* browser whose login the portal accepted; so an extractor whose readiness
\* check passes drives a page that is logged in.
C19_ReadyPageIsLoggedIn ==
  (loggedIn /\ task[2].pc = "idle" /\ task[1].pc \in {"idle", "done"}) =>
    (page # 0 /\ session[pg[page].inBrowser])

\* C20: a timeout of the waitForSelector('#mainTable') that getStudentInfo
\* issues is surfaced to the caller of getStudentInfo: the wait's rejection is
\* never left without a handler.
C20_MainTableTimeoutSurfaced == "wait" \notin unhandled

====
